---- MODULE Spec2Model ----
(***************************************************************************)
(* A model of the User Events API (src/api.py): the in-memory event list   *)
(* events_data, the snapshot file DATA_FILE, the ingestion handler         *)
(* add_events with its two encodings, the bulk clear and the read-only     *)
(* query handlers.  Every handler is one action; the request, the response *)
(* it produced and the list before it are kept until the response is sent. *)
(*                                                                         *)
(* Encoding of values.  JSON strings and text tokens are TLA+ strings; a   *)
(* text body is a sequence of one-character strings, so that strip() and   *)
(* split() are computed character by character.  A JSON array given as a   *)
(* field value is written as a member of JsonArrays (it is unhashable in   *)
(* Python and equal to no string).  A JSON object is a function from its   *)
(* keys to its values.  added_at is a clock reading (a number): the       *)
(* readings of this run are Times, a snapshot written by an earlier run    *)
(* holds the reading 0, and a caller-supplied added_at is written -1.      *)
(*                                                                         *)
(* DATA_FILE holds text: json_dump writes the list as a sequence of JSON   *)
(* tokens and json_load parses it back, so a truncated, garbled or         *)
(* undecodable file is a state of the model.                               *)
(*                                                                         *)
(* Three specifications.  Spec runs the handlers one request at a time.    *)
(* SpecText posts every short text body to a served store.  SpecConc runs  *)
(* the handlers on request threads that interleave at the steps where      *)
(* Python can switch threads; the code takes no lock.                      *)
(***************************************************************************)
EXTENDS Integers, Sequences, FiniteSets, TLC

\* ------------------------------------------------------------------ bounds
MaxStore == 3
MaxBatch == 3
MaxTextLen == 7
NumThreads == 2

\* ------------------------------------------------------------ JSON values
RequiredKeys == {"user_id", "event_type", "event_timestamp"}

JsonArrays == {"[1]"}

IsHashable(v) == v \notin JsonArrays

\* Python's == between a stored field value and a string of the request.
PyEq(v, s) == IsHashable(v) /\ v = s

\* d[key] = value on a dict: the key is added or overwritten.
SetItem(d, key, value) ==
    [k \in DOMAIN d \cup {key} |-> IF k = key THEN value ELSE d[k]]

\* all(key in event for key in ['user_id', 'event_type', 'event_timestamp'])
HasRequiredKeys(event) == RequiredKeys \subseteq DOMAIN event

\* ------------------------------------------------------------------- text
Whitespace == {" ", "\t", "\n", "\r"}

IsSpace(c) == c \in Whitespace

RECURSIVE LStrip(_)
LStrip(s) == IF s # <<>> /\ IsSpace(Head(s)) THEN LStrip(Tail(s)) ELSE s

RECURSIVE RStrip(_)
RStrip(s) ==
    IF s # <<>> /\ IsSpace(s[Len(s)]) THEN RStrip(SubSeq(s, 1, Len(s) - 1)) ELSE s

\* str.strip()
Strip(s) == RStrip(LStrip(s))

\* str.split('\n'): the pieces between newlines; the empty text gives [''].
RECURSIVE SplitLinesFrom(_, _)
SplitLinesFrom(s, cur) ==
    IF s = <<>> THEN <<cur>>
    ELSE IF Head(s) = "\n" THEN <<cur>> \o SplitLinesFrom(Tail(s), <<>>)
    ELSE SplitLinesFrom(Tail(s), Append(cur, Head(s)))

SplitLines(s) == SplitLinesFrom(s, <<>>)

\* str.split(): the maximal runs of non-whitespace characters, as strings.
\* cur is the run being read ("" when none is open).
RECURSIVE SplitFrom(_, _)
SplitFrom(s, cur) ==
    IF s = <<>> THEN (IF cur = "" THEN <<>> ELSE <<cur>>)
    ELSE IF IsSpace(Head(s))
         THEN (IF cur = "" THEN <<>> ELSE <<cur>>) \o SplitFrom(Tail(s), "")
    ELSE SplitFrom(Tail(s), cur \o Head(s))

Split(s) == SplitFrom(s, "")

None == [none |-> TRUE]

MinParts == 3

\* A parser that accepts only lines of exactly three tokens.
parse_csv_line_exact(line, now) ==
    LET parts == Split(Strip(line))
    IN  IF Len(parts) = MinParts
        THEN [user_id |-> parts[1], event_type |-> parts[2],
              event_timestamp |-> parts[3], added_at |-> now]
        ELSE None

parse_csv_line(line, now) ==
    LET parts == Split(Strip(line))
    IN  IF Len(parts) >= MinParts
        THEN [user_id |-> parts[1], event_type |-> parts[2],
              event_timestamp |-> parts[3], added_at |-> now]
        ELSE None

\* ----------------------------------------------------------------- inputs
Obj(u, t) == [user_id |-> u, event_type |-> t, event_timestamp |-> "t"]

\* An object with an extra field and a caller-supplied added_at.
ObjExtra ==
    [user_id |-> "b", event_type |-> "a", event_timestamp |-> "t",
     added_at |-> -1, note |-> "n"]

\* An object missing user_id and event_timestamp.
ObjMissing == [event_type |-> "b", note |-> "n"]

\* The objects of single submissions: well-formed ones, one with an empty
\* user_id, one whose event_type is a JSON array, and one missing keys.
JsonObjects ==
    {Obj("a", "a"), Obj("b", "b"), ObjExtra, Obj("", "a"), Obj("a", "[1]"),
     ObjMissing}

\* The entries of batch submissions.
BatchObjects == {Obj("a", "a"), ObjExtra, ObjMissing}

SeqsUpTo(S, n) == UNION {[1..k -> S] : k \in 0..n}

\* request.get_json(): an object, an array of objects, or a scalar.
JsonBodies ==
    {[kind |-> "object", obj |-> o] : o \in JsonObjects}
    \cup {[kind |-> "array", items |-> b] : b \in SeqsUpTo(BatchObjects, MaxBatch)}
    \cup {[kind |-> "number"]}

\* Text bodies of the main specification: a line that parses followed by one
\* that does not; two lines that parse; tab, CRLF, a blank line, a fourth
\* token and a two-token line together; the empty text.
TextSamples ==
    { <<"a", " ", "a", " ", "t", "\n", "b", "a", "d">>,
      <<"b", " ", "b", " ", "t", "\n", "a", " ", "a", " ", "t">>,
      <<" ", "a", "\t", "a", " ", " ", "t", " ", "x", "\r", "\n", "\n", "b", " ", "b">>,
      <<>> }

Chars == {"a", "b", " ", "\n"}

\* Every text of at most MaxTextLen characters (specification SpecText).
ShortTexts == SeqsUpTo(Chars, MaxTextLen)

NoArg == [given |-> FALSE]
Arg(v) == [value |-> v, given |-> TRUE]

\* request.args.get('user_id'), request.args.get('event_type')
UserIdArgs == {NoArg, Arg(""), Arg("a"), Arg("b")}
EventTypeArgs == {NoArg, Arg(""), Arg("a")}

\* <user_id> of the route '/events/<user_id>': a non-empty path segment.
PathUserIds == {"a", "b", "c"}

\* datetime.now() during this run.
Times == {1}

\* What a save_data() call may do: succeed, or fail while writing.
SaveOutcomes == {"ok", "write_failed"}

\* ------------------------------------------------------------------ state
VARIABLES
    events_data,   \* the in-memory list of events
    data_file,     \* DATA_FILE on disk: [kind, content]
    serving,       \* the module was loaded and the server runs
    cleared,       \* the last mutating request was a clear that succeeded
    request,       \* the request being answered ([op |-> "none"]: none)
    response,      \* its response
    before,        \* events_data when the request arrived
    save_calls,    \* the outcomes of the save_data() calls it made
    threads,       \* the request threads of the threaded server: each one's
                   \* position in its handler and its local names
    heap           \* the list objects events_data was bound to before a
                   \* clear rebound it, oldest first

vars ==
    <<events_data, data_file, serving, cleared, request, response, before,
      save_calls, threads, heap>>

\* What the handlers run one at a time leave alone: no other thread runs.
conc == <<threads, heap>>

\* What the handlers run as threads leave alone: the record of the one
\* request being answered.
solo == <<serving, cleared, request, response, before, save_calls>>

NoRequest == [op |-> "none"]
NoResponse == [status |-> 0]

\* A thread of the server before it is given a request.  held is the list
\* object a local name refers to: the number of lists retired before it.
FreshThread ==
    [pc |-> "idle", req |-> NoRequest, pending |-> <<>>, new_events |-> <<>>,
     filtered_events |-> <<>>, held |-> 0, resp |-> NoResponse]

Threads == 1..NumThreads

\* The module is being loaded: load_data() has run, app.run() not yet.
Startup == [op |-> "load_data"]

\* ------------------------------------------------------------- JSON text
\* The text json.dump writes and json.load reads, as its sequence of tokens:
\* punctuation, string literals and numbers.
Punct(c) == [punct |-> c]
Str(s) == [str |-> s]
Num(n) == [num |-> n]

\* The keys of an object in the order they are written.
FieldOrder == <<"user_id", "event_type", "event_timestamp", "added_at", "note">>

\* A field value: a clock reading, an array, or a string.
DumpValue(key, v) ==
    IF key = "added_at" THEN <<Num(v)>>
    ELSE IF v \in JsonArrays THEN <<Punct("["), Num(1), Punct("]")>>
    ELSE <<Str(v)>>

\* An encoder that writes the three required keys and added_at only.
RECURSIVE DumpFieldsKnown(_, _, _)
DumpFieldsKnown(event, keys, first) ==
    IF keys = <<>> THEN <<>>
    ELSE LET key == Head(keys)
         IN  IF key \notin DOMAIN event \/ key \notin RequiredKeys \cup {"added_at"}
             THEN DumpFieldsKnown(event, Tail(keys), first)
             ELSE (IF first THEN <<>> ELSE <<Punct(",")>>)
                  \o <<Str(key), Punct(":")>> \o DumpValue(key, event[key])
                  \o DumpFieldsKnown(event, Tail(keys), FALSE)

\* The members of an object: "key": value, separated by commas.
RECURSIVE DumpFields(_, _, _)
DumpFields(event, keys, first) ==
    IF keys = <<>> THEN <<>>
    ELSE LET key == Head(keys)
         IN  IF key \notin DOMAIN event
             THEN DumpFields(event, Tail(keys), first)
             ELSE (IF first THEN <<>> ELSE <<Punct(",")>>)
                  \o <<Str(key), Punct(":")>> \o DumpValue(key, event[key])
                  \o DumpFields(event, Tail(keys), FALSE)

DumpEvent(event) ==
    <<Punct("{")>> \o DumpFields(event, FieldOrder, TRUE) \o <<Punct("}")>>

RECURSIVE DumpEvents(_, _)
DumpEvents(events, first) ==
    IF events = <<>> THEN <<>>
    ELSE (IF first THEN <<>> ELSE <<Punct(",")>>)
         \o DumpEvent(Head(events)) \o DumpEvents(Tail(events), FALSE)

\* json.dump(events_data, f, indent=2)
json_dump(events) == <<Punct("[")>> \o DumpEvents(events, TRUE) \o <<Punct("]")>>

\* A parse: the value read and the tokens after it, or a JSONDecodeError.
DecodeError == [ok |-> FALSE]
Parsed(v, rest) == [value |-> v, ok |-> TRUE, rest |-> rest]

IsPunct(toks, c) == toks # <<>> /\ Head(toks) = Punct(c)

ParseValue(toks) ==
    IF toks = <<>> THEN DecodeError
    ELSE IF "str" \in DOMAIN Head(toks) THEN Parsed(Head(toks).str, Tail(toks))
    ELSE IF "num" \in DOMAIN Head(toks) THEN Parsed(Head(toks).num, Tail(toks))
    ELSE IF /\ Len(toks) >= 3
            /\ SubSeq(toks, 1, 3) = <<Punct("["), Num(1), Punct("]")>>
         THEN Parsed("[1]", SubSeq(toks, 4, Len(toks)))
    ELSE DecodeError

\* The members of an object after its brace, added to the object read so far.
RECURSIVE ParseMembers(_, _)
ParseMembers(toks, obj) ==
    IF Len(toks) < 2 \/ "str" \notin DOMAIN toks[1] \/ toks[2] # Punct(":")
    THEN DecodeError
    ELSE LET v == ParseValue(SubSeq(toks, 3, Len(toks)))
         IN  IF ~v.ok THEN DecodeError
             ELSE IF IsPunct(v.rest, "}")
                  THEN Parsed(SetItem(obj, toks[1].str, v.value), Tail(v.rest))
             ELSE IF IsPunct(v.rest, ",")
                  THEN ParseMembers(Tail(v.rest), SetItem(obj, toks[1].str, v.value))
             ELSE DecodeError

ParseEvent(toks) ==
    IF IsPunct(toks, "{") THEN ParseMembers(Tail(toks), <<>>) ELSE DecodeError

\* The items of an array after its bracket, added to the items read so far.
RECURSIVE ParseItems(_, _)
ParseItems(toks, items) ==
    LET e == ParseEvent(toks)
    IN  IF ~e.ok THEN DecodeError
        ELSE IF IsPunct(e.rest, "]") THEN Parsed(Append(items, e.value), Tail(e.rest))
        ELSE IF IsPunct(e.rest, ",") THEN ParseItems(Tail(e.rest), Append(items, e.value))
        ELSE DecodeError

\* json.load(f): the list the text holds, or a JSONDecodeError.
json_load(toks) ==
    IF ~IsPunct(toks, "[") THEN DecodeError
    ELSE LET r == IF IsPunct(Tail(toks), "]") THEN Parsed(<<>>, Tail(Tail(toks)))
                  ELSE ParseItems(Tail(toks), <<>>)
         IN  IF r.ok /\ r.rest = <<>> THEN r ELSE DecodeError

\* ------------------------------------------------------------------- file
\* DATA_FILE: absent, a text (its tokens), or bytes that are no text in the
\* encoding open() reads with.
AbsentFile == [kind |-> "absent", content |-> <<>>]
UndecodableFile == [kind |-> "undecodable", content |-> <<>>]
TextFile(toks) == [kind |-> "text", content |-> toks]

\* The file open(DATA_FILE, 'w') leaves when nothing is written after it.
CorruptFile == TextFile(<<>>)

JsonFile(events) == TextFile(json_dump(events))

\* load_data() raises: reading the file fails with UnicodeDecodeError, which
\* the except clause does not name.
LoadRaises(f) == f.kind = "undecodable"

\* load_data(): events_data after the call.  It stays [] when the file is
\* absent, when json.load raises JSONDecodeError and when the call raises.
load_data(f) ==
    IF f.kind = "text" /\ json_load(f.content).ok THEN json_load(f.content).value
    ELSE <<>>

\* save_data(): DATA_FILE after the call.  A write that fails after open()
\* truncated the file leaves it empty.
save_data(events, outcome) ==
    IF outcome = "ok" THEN JsonFile(events) ELSE CorruptFile

\* A snapshot an earlier run wrote.
EarlierSnapshot ==
    <<[user_id |-> "a", event_type |-> "a", event_timestamp |-> "t", added_at |-> 0]>>

\* Its text cut short: the closing brace and bracket are missing.
TruncatedFile ==
    TextFile(SubSeq(json_dump(EarlierSnapshot), 1, Len(json_dump(EarlierSnapshot)) - 2))

InitFiles ==
    {AbsentFile, CorruptFile, TruncatedFile, UndecodableFile,
     JsonFile(<<>>), JsonFile(EarlierSnapshot)}

Init ==
    /\ data_file \in InitFiles
    /\ events_data = load_data(data_file)
    /\ serving = ~LoadRaises(data_file)
    /\ cleared = FALSE
    /\ request = Startup
    /\ response = NoResponse
    /\ before = <<>>
    /\ save_calls = <<>>
    /\ threads = [t \in Threads |-> FreshThread]
    /\ heap = <<>>

\* The server runs: the module has loaded a snapshot an earlier run saved
\* and app.run() serves; no request has arrived.
InitServing ==
    /\ data_file \in {JsonFile(<<>>), JsonFile(EarlierSnapshot)}
    /\ events_data = load_data(data_file)
    /\ serving = TRUE
    /\ cleared = FALSE
    /\ request = NoRequest
    /\ response = NoResponse
    /\ before = <<>>
    /\ save_calls = <<>>
    /\ threads = [t \in Threads |-> FreshThread]
    /\ heap = <<>>

\* The process serves requests and none is being answered.
Idle == serving /\ request = NoRequest

\* ---------------------------------------------------------------- ingest
\* A stamping that keeps an added_at the caller supplied (dict.setdefault).
StampIfAbsent(event, now) ==
    IF "added_at" \in DOMAIN event THEN event ELSE SetItem(event, "added_at", now)

Stamp(event, now) == SetItem(event, "added_at", now)

\* A batch loop that stops at the first entry missing a key.
RECURSIVE BatchAcceptedUntilBad(_, _)
BatchAcceptedUntilBad(items, now) ==
    IF items = <<>> \/ ~HasRequiredKeys(Head(items)) THEN <<>>
    ELSE <<SetItem(Head(items), "added_at", now)>>
         \o BatchAcceptedUntilBad(Tail(items), now)

\* The batch loop of add_events: the entries holding the three keys, stamped.
RECURSIVE BatchAccepted(_, _)
BatchAccepted(items, now) ==
    IF items = <<>> THEN <<>>
    ELSE (IF HasRequiredKeys(Head(items)) THEN <<Stamp(Head(items), now)>> ELSE <<>>)
         \o BatchAccepted(Tail(items), now)

\* The line loop of add_events: the events of the non-blank lines that parse.
RECURSIVE LinesAccepted(_, _)
LinesAccepted(lines, now) ==
    IF lines = <<>> THEN <<>>
    ELSE LET line == Head(lines)
             event == parse_csv_line(line, now)
         IN  (IF Strip(line) # <<>> /\ event # None THEN <<event>> ELSE <<>>)
             \o LinesAccepted(Tail(lines), now)

TextAccepted(text, now) == LinesAccepted(SplitLines(Strip(text)), now)

Rejected(status, error) == [status |-> status, ok |-> FALSE, error |-> error]
Accepted(new_events) == [new_events |-> new_events, ok |-> TRUE]

\* An ingest that drops a single object missing a key the way a batch does.
IngestDropSingle(content_type, body, now) ==
    IF content_type = "application/json"
    THEN CASE body.kind = "array" -> Accepted(BatchAccepted(body.items, now))
           [] body.kind = "object" ->
                Accepted(BatchAccepted(<<body.obj>>, now))
           [] OTHER -> Rejected(500, "exception")
    ELSE IF content_type = "text/plain"
    THEN Accepted(TextAccepted(body, now))
    ELSE Rejected(400, "Unsupported content type")

\* add_events up to the save: the new events, or the error returned early.
Ingest(content_type, body, now) ==
    IF content_type = "application/json"
    THEN CASE body.kind = "array" -> Accepted(BatchAccepted(body.items, now))
           [] body.kind = "object" ->
                IF HasRequiredKeys(body.obj)
                THEN Accepted(<<Stamp(body.obj, now)>>)
                ELSE Rejected(400, "Missing required fields")
           [] OTHER -> Rejected(500, "exception")
    ELSE IF content_type = "text/plain"
    THEN Accepted(TextAccepted(body, now))
    ELSE Rejected(400, "Unsupported content type")

AddedResponse(new_events, events) ==
    [status |-> 201, added |-> Len(new_events), events_added |-> new_events,
     total_events |-> Len(events)]

ErrorResponse(status, error) == [status |-> status, error |-> error]

\* A response that swallows the failure of save_data().
SavedResponseSwallow(new_events, events, outcome) == AddedResponse(new_events, events)

\* The response of add_events once save_data() was called with `outcome`.
SavedResponse(new_events, events, outcome) ==
    IF outcome = "ok" THEN AddedResponse(new_events, events)
    ELSE ErrorResponse(500, "exception")

\* A list update that stamps the whole list, not only the new events.
ExtendRestamped(events, new_events) ==
    IF new_events = <<>> THEN events
    ELSE [i \in 1..Len(events) |-> Stamp(events[i], new_events[1].added_at)]
         \o new_events

SameTriple(a, b) ==
    /\ a.user_id = b.user_id
    /\ a.event_type = b.event_type
    /\ a.event_timestamp = b.event_timestamp

\* A list update that keeps the store a set: an event whose user_id,
\* event_type and event_timestamp are those of a stored one is not added.
RECURSIVE ExtendUnique(_, _)
ExtendUnique(events, new_events) ==
    IF new_events = <<>> THEN events
    ELSE ExtendUnique(
             IF \E i \in 1..Len(events) : SameTriple(events[i], Head(new_events))
             THEN events ELSE Append(events, Head(new_events)),
             Tail(new_events))

\* events_data.extend(new_events), events_data.append(event): the list with
\* the new events after those it held.
Extend(events, new_events) == events \o new_events

\* A save inside the loop: one save_data() call for each new event.
SaveCallsPerEvent(new_events, outcome) == [i \in 1..Len(new_events) |-> outcome]

\* The save_data() calls of add_events once the new events are in the list:
\* the one call after the branches.
SaveCalls(new_events, outcome) == <<outcome>>

add_events(req, content_type, body, now, outcome) ==
    LET res == Ingest(content_type, body, now)
    IN  /\ Idle
        /\ request' = req
        /\ before' = events_data
        /\ cleared' = FALSE
        /\ UNCHANGED <<serving, conc>>
        /\ IF res.ok
           THEN /\ Len(events_data) + Len(res.new_events) <= MaxStore
                /\ events_data' = Extend(events_data, res.new_events)
                /\ data_file' = save_data(events_data', outcome)
                /\ save_calls' = SaveCalls(res.new_events, outcome)
                /\ response' = SavedResponse(res.new_events, events_data', outcome)
           ELSE /\ outcome = "ok"
                /\ UNCHANGED <<events_data, data_file>>
                /\ save_calls' = <<>>
                /\ response' = ErrorResponse(res.status, res.error)

PostJson ==
    \E body \in JsonBodies, now \in Times, outcome \in SaveOutcomes :
        add_events([op |-> "POST /events", content_type |-> "application/json",
                    data |-> body], "application/json", body, now, outcome)

PostText ==
    \E text \in TextSamples, now \in Times, outcome \in SaveOutcomes :
        add_events([op |-> "POST /events", text |-> text,
                    content_type |-> "text/plain"], "text/plain", text, now, outcome)

PostOther ==
    \E now \in Times :
        add_events([op |-> "POST /events", content_type |-> "application/xml"],
                   "application/xml", <<>>, now, "ok")

\* ------------------------------------------------------------------ clear
ClearedResponse == [status |-> 200, total_events |-> 0, message |-> "All events cleared"]

\* A clear that rebinds a local name: the module's list is left as it was.
clear_events_local(outcome) ==
    /\ Idle
    /\ request' = [op |-> "DELETE /events"]
    /\ before' = events_data
    /\ events_data' = events_data
    /\ data_file' = save_data(<<>>, outcome)
    /\ save_calls' = <<outcome>>
    /\ cleared' = (outcome = "ok")
    /\ UNCHANGED <<serving, conc>>
    /\ response' = IF outcome = "ok" THEN ClearedResponse
                   ELSE ErrorResponse(500, "exception")

\* clear_events: the list is emptied, then saved; a failed save is an
\* unhandled exception (a 500 of the framework).
clear_events(outcome) ==
    /\ Idle
    /\ request' = [op |-> "DELETE /events"]
    /\ before' = events_data
    /\ events_data' = <<>>
    /\ data_file' = save_data(events_data', outcome)
    /\ save_calls' = <<outcome>>
    /\ cleared' = (outcome = "ok")
    /\ UNCHANGED <<serving, conc>>
    /\ response' = IF outcome = "ok" THEN ClearedResponse
                   ELSE ErrorResponse(500, "exception")

ClearEvents == \E outcome \in SaveOutcomes : clear_events(outcome)

\* ---------------------------------------------------------------- queries
\* `if user_id:` on a query argument: given and not the empty string.
Truthy(arg) == arg.given /\ arg.value # ""

\* [e for e in events if e['user_id'] == user_id]
ByUser(events, user_id) ==
    LET Match(e) == PyEq(e.user_id, user_id) IN SelectSeq(events, Match)

\* [e for e in events if e['event_type'] == event_type]
ByType(events, event_type) ==
    LET Match(e) == PyEq(e.event_type, event_type) IN SelectSeq(events, Match)

\* A filter whose second test is an elif: event_type is ignored once
\* user_id is given.
FilteredElif(events, user_id, event_type) ==
    IF Truthy(user_id) THEN ByUser(events, user_id.value)
    ELSE IF Truthy(event_type) THEN ByType(events, event_type.value)
    ELSE events

Filtered(events, user_id, event_type) ==
    LET by_user == IF Truthy(user_id) THEN ByUser(events, user_id.value) ELSE events
    IN  IF Truthy(event_type) THEN ByType(by_user, event_type.value) ELSE by_user

AllEventsResponse(events, user_id, event_type) ==
    LET filtered_events == Filtered(events, user_id, event_type)
    IN  [status |-> 200, events |-> filtered_events, total_events |-> Len(events),
         count |-> Len(filtered_events)]

\* A response whose count is the length of the whole list.
UserEventsResponseTotal(events, user_id) ==
    [user_id |-> user_id, status |-> 200, events |-> ByUser(events, user_id),
     count |-> Len(events)]

UserEventsResponse(events, user_id) ==
    LET user_events == ByUser(events, user_id)
    IN  [user_id |-> user_id, status |-> 200, events |-> user_events,
         count |-> Len(user_events)]

Range(seq) == {seq[i] : i \in DOMAIN seq}

UserIdsOf(events) == {e.user_id : e \in Range(events)}
EventTypesOf(events) == {e.event_type : e \in Range(events)}

\* set(...) raises TypeError on an unhashable member.
AllHashable(values) == \A v \in values : IsHashable(v)

UsersResponse(events) ==
    IF ~AllHashable(UserIdsOf(events)) \/ ~AllHashable(EventTypesOf(events))
    THEN ErrorResponse(500, "exception")
    ELSE LET users == UserIdsOf(events)
         IN  [status |-> 200, count |-> Cardinality(users), users |-> users,
              user_stats |->
                  [u \in users |->
                      [event_count |-> Len(ByUser(events, u)),
                       event_types |-> EventTypesOf(ByUser(events, u))]]]

EventTypesResponse(events) ==
    IF ~AllHashable(EventTypesOf(events))
    THEN ErrorResponse(500, "exception")
    ELSE LET event_types == EventTypesOf(events)
         IN  [status |-> 200, count |-> Cardinality(event_types),
              event_types |-> event_types,
              type_counts |-> [t \in event_types |-> Len(ByType(events, t))]]

\* user_counts of get_stats: the (user_id, count) items in the order the
\* dict holds them, the order of each user's first event.
RECURSIVE Bump(_, _)
Bump(items, user_id) ==
    IF items = <<>> THEN <<[user_id |-> user_id, event_count |-> 1]>>
    ELSE IF Head(items).user_id = user_id
         THEN <<[user_id |-> user_id, event_count |-> Head(items).event_count + 1]>>
              \o Tail(items)
    ELSE <<Head(items)>> \o Bump(Tail(items), user_id)

RECURSIVE UserCounts(_, _)
UserCounts(events, items) ==
    IF events = <<>> THEN items
    ELSE UserCounts(Tail(events), Bump(items, Head(events).user_id))

\* max(items, key=count): the first item no later one exceeds.
RECURSIVE MaxItem(_, _)
MaxItem(items, best) ==
    IF items = <<>> THEN best
    ELSE MaxItem(Tail(items),
                 IF Head(items).event_count > best.event_count THEN Head(items) ELSE best)

MostActive(events) ==
    LET items == UserCounts(events, <<>>) IN MaxItem(Tail(items), Head(items))

StatsResponse(events) ==
    IF events = <<>>
    THEN [status |-> 200, total_events |-> 0, event_types |-> {}, unique_users |-> 0]
    ELSE IF ~AllHashable(UserIdsOf(events)) \/ ~AllHashable(EventTypesOf(events))
    THEN ErrorResponse(500, "exception")
    ELSE [status |-> 200, total_events |-> Len(events),
          event_types |-> EventTypesOf(events),
          unique_users |-> Cardinality(UserIdsOf(events)),
          most_active_user |-> MostActive(events)]

HomeResponse(events) == [status |-> 200, total_events |-> Len(events)]

\* A read-only handler: it answers and leaves the list and the file alone.
Query(req, resp) ==
    /\ Idle
    /\ request' = req
    /\ response' = resp
    /\ before' = events_data
    /\ save_calls' = <<>>
    /\ UNCHANGED <<events_data, data_file, serving, cleared, conc>>

home == Query([op |-> "GET /"], HomeResponse(events_data))

get_all_events ==
    \E user_id \in UserIdArgs, event_type \in EventTypeArgs :
        Query([user_id |-> user_id, event_type |-> event_type, op |-> "GET /events"],
              AllEventsResponse(events_data, user_id, event_type))

get_user_events ==
    \E user_id \in PathUserIds :
        Query([user_id |-> user_id, op |-> "GET /events/<user_id>"],
              UserEventsResponse(events_data, user_id))

get_users == Query([op |-> "GET /users"], UsersResponse(events_data))

get_event_types == Query([op |-> "GET /event-types"], EventTypesResponse(events_data))

get_stats == Query([op |-> "GET /stats"], StatsResponse(events_data))

\* The response is sent and the request's context is dropped; after the
\* module is loaded, app.run() starts to serve.
Respond ==
    /\ serving
    /\ request # NoRequest
    /\ request' = NoRequest
    /\ response' = NoResponse
    /\ before' = <<>>
    /\ save_calls' = <<>>
    /\ UNCHANGED <<events_data, data_file, serving, cleared, conc>>

Next ==
    \/ PostJson
    \/ PostText
    \/ PostOther
    \/ ClearEvents
    \/ home
    \/ get_all_events
    \/ get_user_events
    \/ get_users
    \/ get_event_types
    \/ get_stats
    \/ Respond

Spec == Init /\ [][Next]_vars

\* One text submission, drawn from every short text and the samples.
PostShortText ==
    /\ Idle
    /\ \E text \in ShortTexts \cup TextSamples, now \in Times :
        add_events([op |-> "POST /events", text |-> text,
                    content_type |-> "text/plain"], "text/plain", text, now, "ok")

SpecText == InitServing /\ [][PostShortText]_vars

\* ------------------------------------------------------- request threads
\* app.run() serves each request on a thread of its own and the handlers
\* take no lock: between two steps of one handler the steps of another may
\* run.  Each thread answers one request; every save_data() succeeds.

\* The bodies and arguments of the concurrent requests.
ConcTexts == { <<"b", " ", "b", " ", "t", "\n", "a", " ", "a", " ", "t">> }
ConcBatches == { <<Obj("a", "a"), ObjExtra>> }
ConcObjects == {Obj("a", "a"), ObjMissing}
ConcUserIdArgs == {NoArg, Arg("b")}

\* datetime.now() in the request of thread t: later than every reading of an
\* earlier run, and not the reading of another request.
Now(t) == t

\* The list object a held reference names: the one events_data is bound to,
\* or one retired by a clear.
Deref(ref) == IF ref = Len(heap) THEN events_data ELSE heap[ref + 1]

At(t, pc) == threads[t].pc = pc

\* Bytes written at offset 0 of a file other handles wrote to since this
\* handle truncated it: they replace its start, the rest stays.
Overlay(existing, written) ==
    written \o SubSeq(existing, Len(written) + 1, Len(existing))

\* add_events, text/plain: the body is read; the loop is about to start.
ReadText(t) ==
    /\ At(t, "idle")
    /\ \E text \in ConcTexts :
          threads' = [threads EXCEPT
              ![t].req = [op |-> "POST /events", text |-> text,
                          content_type |-> "text/plain"],
              ![t].pending = TextAccepted(text, Now(t)),
              ![t].pc = "lines"]
    /\ UNCHANGED <<events_data, data_file, heap, solo>>

\* One turn of the line loop: events_data.append(event); new_events.append(event)
AppendLine(t) ==
    /\ At(t, "lines")
    /\ threads[t].pending # <<>>
    /\ events_data' = Append(events_data, Head(threads[t].pending))
    /\ threads' = [threads EXCEPT
          ![t].new_events = Append(@, Head(threads[t].pending)),
          ![t].pending = Tail(@)]
    /\ UNCHANGED <<data_file, heap, solo>>

\* The line loop ends.
EndLines(t) ==
    /\ At(t, "lines")
    /\ threads[t].pending = <<>>
    /\ threads' = [threads EXCEPT ![t].pc = "save"]
    /\ UNCHANGED <<events_data, data_file, heap, solo>>

\* add_events, application/json, a list: new_events is built and
\* events_data.extend(new_events) adds it in one call.
ExtendBatch(t) ==
    /\ At(t, "idle")
    /\ \E items \in ConcBatches :
          LET new_events == BatchAccepted(items, Now(t))
          IN  /\ events_data' = events_data \o new_events
              /\ threads' = [threads EXCEPT
                    ![t].req = [op |-> "POST /events",
                                content_type |-> "application/json",
                                data |-> [kind |-> "array", items |-> items]],
                    ![t].new_events = new_events,
                    ![t].pc = "save"]
    /\ UNCHANGED <<data_file, heap, solo>>

\* add_events, application/json, one object: appended, or rejected.
AppendSingle(t) ==
    /\ At(t, "idle")
    /\ \E obj \in ConcObjects :
          LET req == [op |-> "POST /events", content_type |-> "application/json",
                      data |-> [kind |-> "object", obj |-> obj]]
          IN  IF HasRequiredKeys(obj)
              THEN /\ events_data' = Append(events_data, Stamp(obj, Now(t)))
                   /\ threads' = [threads EXCEPT
                         ![t].req = req,
                         ![t].new_events = <<Stamp(obj, Now(t))>>,
                         ![t].pc = "save"]
              ELSE /\ events_data' = events_data
                   /\ threads' = [threads EXCEPT
                         ![t].req = req,
                         ![t].resp = ErrorResponse(400, "Missing required fields"),
                         ![t].pc = "done"]
    /\ UNCHANGED <<data_file, heap, solo>>

\* clear_events: events_data = [] binds the name to a new list; the list it
\* named stays as it is for whoever holds it.
RebindEmpty(t) ==
    /\ At(t, "idle")
    /\ heap' = Append(heap, events_data)
    /\ events_data' = <<>>
    /\ threads' = [threads EXCEPT ![t].req = [op |-> "DELETE /events"],
                                  ![t].pc = "save"]
    /\ UNCHANGED <<data_file, solo>>

\* save_data: open(DATA_FILE, 'w') truncates the file.
OpenFile(t) ==
    /\ At(t, "save")
    /\ data_file' = TextFile(<<>>)
    /\ threads' = [threads EXCEPT ![t].pc = "dump"]
    /\ UNCHANGED <<events_data, heap, solo>>

\* save_data: json.dump is entered with the list events_data names now.
EnterDump(t) ==
    /\ At(t, "dump")
    /\ threads' = [threads EXCEPT ![t].held = Len(heap), ![t].pc = "write"]
    /\ UNCHANGED <<events_data, data_file, heap, solo>>

\* save_data: the list is encoded and, as the file is closed, written at the
\* start of the file.
WriteFile(t) ==
    /\ At(t, "write")
    /\ data_file' =
          TextFile(Overlay(data_file.content, json_dump(Deref(threads[t].held))))
    /\ threads' = [threads EXCEPT ![t].pc = "return"]
    /\ UNCHANGED <<events_data, heap, solo>>

\* The response after save_data(): of add_events, with len(events_data) as
\* it is now; of clear_events.
ReturnSaved(t) ==
    /\ At(t, "return")
    /\ threads' = [threads EXCEPT
          ![t].resp = IF threads[t].req.op = "DELETE /events" THEN ClearedResponse
                      ELSE AddedResponse(threads[t].new_events, events_data),
          ![t].pc = "done"]
    /\ UNCHANGED <<events_data, data_file, heap, solo>>

\* get_all_events: the filters run over the list events_data names now.
FilterEvents(t) ==
    /\ At(t, "idle")
    /\ \E user_id \in ConcUserIdArgs :
          threads' = [threads EXCEPT
              ![t].req = [user_id |-> user_id, event_type |-> NoArg,
                          op |-> "GET /events"],
              ![t].filtered_events = Filtered(events_data, user_id, NoArg),
              ![t].pc = "count"]
    /\ UNCHANGED <<events_data, data_file, heap, solo>>

\* get_all_events: the response, with len(events_data) as it is now.
ReturnEvents(t) ==
    /\ At(t, "count")
    /\ threads' = [threads EXCEPT
          ![t].resp = [status |-> 200, events |-> threads[t].filtered_events,
                       total_events |-> Len(events_data),
                       count |-> Len(threads[t].filtered_events)],
          ![t].pc = "done"]
    /\ UNCHANGED <<events_data, data_file, heap, solo>>

NextConc ==
    \E t \in Threads :
        \/ ReadText(t)
        \/ AppendLine(t)
        \/ EndLines(t)
        \/ ExtendBatch(t)
        \/ AppendSingle(t)
        \/ RebindEmpty(t)
        \/ OpenFile(t)
        \/ EnterDump(t)
        \/ WriteFile(t)
        \/ ReturnSaved(t)
        \/ FilterEvents(t)
        \/ ReturnEvents(t)

SpecConc == InitServing /\ [][NextConc]_vars

\* ------------------------------------------------------------ properties
\* The properties speak of the state in which a request has been answered
\* and its response not yet sent: request, response and before are set.

IsPost == request.op = "POST /events"
IsJsonPost == IsPost /\ request.content_type = "application/json"
IsTextPost == IsPost /\ request.content_type = "text/plain"

\* The list holds what it held before, first.
KeepsBefore ==
    /\ Len(events_data) >= Len(before)
    /\ SubSeq(events_data, 1, Len(before)) = before

\* The events after those.
Appended == SubSeq(events_data, Len(before) + 1, Len(events_data))

\* The k-th smallest member of a set of numbers.
KthOf(I, k) == CHOOSE i \in I : Cardinality({j \in I : j <= i}) = k

\* r is the subsequence of s, in order, of the members Match holds of.
IsSubseqWhere(r, s, Match(_)) ==
    LET I == {i \in 1..Len(s) : Match(s[i])}
    IN  /\ Len(r) = Cardinality(I)
        /\ \A k \in 1..Len(r) : r[k] = s[KthOf(I, k)]

HoldsAllThree(o) ==
    "user_id" \in DOMAIN o /\ "event_type" \in DOMAIN o /\ "event_timestamp" \in DOMAIN o

\* record r is entry o as stored: o's fields, and added_at read off the clock.
StoredFrom(r, o) ==
    /\ DOMAIN r = DOMAIN o \cup {"added_at"}
    /\ r.added_at \in Times
    /\ \A k \in DOMAIN o \ {"added_at"} : r[k] = o[k]

\* C1: a single-object structured submission holding user_id, event_type and
\* event_timestamp appends exactly one record at the end of the list; the
\* record has added_at set by the server and the three submitted values.
C1_SingleObjectAppendsOne ==
    (IsJsonPost /\ request.data.kind = "object" /\ HoldsAllThree(request.data.obj))
    => LET o == request.data.obj
           r == events_data[Len(events_data)]
       IN  /\ Len(events_data) = Len(before) + 1
           /\ KeepsBefore
           /\ "added_at" \in DOMAIN r
           /\ r.added_at \in Times
           /\ r.user_id = o.user_id
           /\ r.event_type = o.event_type
           /\ r.event_timestamp = o.event_timestamp

\* C1's case: an object with a caller-supplied added_at and an extra field is
\* appended to a list that is not empty.
C1_Witness ==
    /\ IsJsonPost
    /\ request.data.kind = "object"
    /\ HoldsAllThree(request.data.obj)
    /\ "added_at" \in DOMAIN request.data.obj
    /\ before # <<>>
    /\ response.status = 201

\* C2: a structured batch with N entries holding the three keys and M entries
\* missing one leaves the list as the list before followed by exactly the N
\* well-formed entries in submission order; the response lists N accepted
\* records; the other M are dropped without an error.
C2_BatchAppendsWellFormed ==
    (IsJsonPost /\ request.data.kind = "array")
    => LET items == request.data.items
           I == {i \in 1..Len(items) : HoldsAllThree(items[i])}
       IN  /\ KeepsBefore
           /\ Len(Appended) = Cardinality(I)
           /\ \A k \in 1..Len(Appended) : StoredFrom(Appended[k], items[KthOf(I, k)])
           /\ save_calls = <<"ok">>
              => /\ response.status = 201
                 /\ response.added = Cardinality(I)
                 /\ response.events_added = Appended

\* C2's case: a batch of a malformed entry and two different well-formed ones.
C2_Witness ==
    /\ IsJsonPost
    /\ request.data.kind = "array"
    /\ \E i, j, k \in 1..Len(request.data.items) :
          /\ i < j
          /\ HoldsAllThree(request.data.items[i])
          /\ HoldsAllThree(request.data.items[j])
          /\ request.data.items[i] # request.data.items[j]
          /\ ~HoldsAllThree(request.data.items[k])
    /\ before # <<>>
    /\ response.status = 201

\* The text read as the specification words it: lines are the pieces between
\* newlines, tokens the maximal runs of characters that are not whitespace.
Newlines(t) == {i \in 1..Len(t) : t[i] = "\n"}
LineCount(t) == Cardinality(Newlines(t)) + 1
LineLo(t, k) == IF k = 1 THEN 1 ELSE KthOf(Newlines(t), k - 1) + 1
LineHi(t, k) == IF k = LineCount(t) THEN Len(t) ELSE KthOf(Newlines(t), k) - 1

TokenStarts(t, k) ==
    {i \in LineLo(t, k)..LineHi(t, k) :
        t[i] \notin Whitespace /\ (i = LineLo(t, k) \/ t[i - 1] \in Whitespace)}

TokenEnds(t, k) ==
    {i \in LineLo(t, k)..LineHi(t, k) :
        t[i] \notin Whitespace /\ (i = LineHi(t, k) \/ t[i + 1] \in Whitespace)}

TokenCount(t, k) == Cardinality(TokenStarts(t, k))

RECURSIVE AsString(_)
AsString(cs) == IF cs = <<>> THEN "" ELSE Head(cs) \o AsString(Tail(cs))

\* The j-th token of line k.
Token(t, k, j) ==
    AsString(SubSeq(t, KthOf(TokenStarts(t, k), j), KthOf(TokenEnds(t, k), j)))

ParsingLines(t) == {k \in 1..LineCount(t) : TokenCount(t, k) >= 3}

\* C3: of a text submission, a line of fewer than 3 tokens produces no record
\* and no error; a line of 3 or more produces exactly one record, made of its
\* first three tokens; the records are appended in line order.
C3_TextLines ==
    IsTextPost
    => LET t == request.text
       IN  /\ response.status = 201
           /\ KeepsBefore
           /\ Len(Appended) = Cardinality(ParsingLines(t))
           /\ response.events_added = Appended
           /\ \A n \in 1..Len(Appended) :
                 LET k == KthOf(ParsingLines(t), n)
                     r == Appended[n]
                 IN  /\ DOMAIN r = RequiredKeys \cup {"added_at"}
                     /\ r.user_id = Token(t, k, 1)
                     /\ r.event_type = Token(t, k, 2)
                     /\ r.event_timestamp = Token(t, k, 3)
                     /\ r.added_at \in Times

\* C3's case: a text with a line of more than three tokens, which gives a
\* record, and a line of one or two tokens, which gives none.
C3_Witness ==
    /\ IsTextPost
    /\ \E k \in 1..LineCount(request.text) : TokenCount(request.text, k) > 3
    /\ \E k \in 1..LineCount(request.text) : TokenCount(request.text, k) \in {1, 2}
    /\ Len(Appended) = 1
    /\ before # <<>>

\* C4: a single object missing a required key, and a submission of any other
\* content kind, are answered with an error, leave the list unchanged and
\* make no snapshot write.
C4_RejectedLeavesStore ==
    /\ (IsJsonPost /\ request.data.kind = "object" /\ ~HoldsAllThree(request.data.obj))
       => /\ response.status = 400
          /\ response.error = "Missing required fields"
          /\ events_data = before
          /\ save_calls = <<>>
    /\ (IsPost /\ request.content_type \notin {"application/json", "text/plain"})
       => /\ response.status = 400
          /\ response.error = "Unsupported content type"
          /\ events_data = before
          /\ save_calls = <<>>

\* C4's case: an object missing keys is submitted to a list that is not empty.
C4_Witness ==
    /\ IsJsonPost
    /\ request.data.kind = "object"
    /\ ~HoldsAllThree(request.data.obj)
    /\ before # <<>>
    /\ response.status = 400

IsGetEvents == request.op = "GET /events"

\* C5 as stated: filterEvents returns the records whose user_id equals userId
\* when userId is given and whose event_type equals eventType when eventType
\* is given, in store order, and leaves the store alone.
C5_FilterWhenGiven ==
    IsGetEvents
    => /\ response.status = 200
       /\ IsSubseqWhere(response.events, events_data,
             LAMBDA e : /\ request.user_id.given => e.user_id = request.user_id.value
                        /\ request.event_type.given
                              => e.event_type = request.event_type.value)
       /\ events_data = before

\* An argument that filters: given, and not the empty string.
Filters(arg) == arg.given /\ arg.value # ""

\* C5, amended: the same for each argument given with a non-empty value; an
\* argument given as the empty string is treated as not given.  With no
\* filtering argument the whole store is returned; the counts are those of
\* the result and of the store.
C5_FilterWhenNonEmpty ==
    IsGetEvents
    => /\ response.status = 200
       /\ IsSubseqWhere(response.events, events_data,
             LAMBDA e : /\ Filters(request.user_id) => e.user_id = request.user_id.value
                        /\ Filters(request.event_type)
                              => e.event_type = request.event_type.value)
       /\ (~Filters(request.user_id) /\ ~Filters(request.event_type))
             => response.events = events_data
       /\ response.count = Len(response.events)
       /\ response.total_events = Len(events_data)
       /\ events_data = before

\* C5's case: both arguments filter, and the result is a proper, non-empty
\* part of the store that user_id alone does not give.
C5_Witness ==
    /\ IsGetEvents
    /\ Filters(request.user_id)
    /\ Filters(request.event_type)
    /\ response.events # <<>>
    /\ \E i \in 1..Len(events_data) :
          /\ events_data[i].user_id = request.user_id.value
          /\ events_data[i].event_type # request.event_type.value
    /\ \E i \in 1..Len(events_data) :
          events_data[i].user_id # request.user_id.value

IsGetUserEvents == request.op = "GET /events/<user_id>"

\* C6: eventsForUser(u) returns what filterEvents(userId = u) returns with no
\* eventType: the records whose user_id is u, all of them, in insertion
\* order; the count reported is the length of that sequence.
C6_UserEventsIsFilter ==
    IsGetUserEvents
    => /\ response.status = 200
       /\ response.events
             = AllEventsResponse(events_data, Arg(request.user_id), NoArg).events
       /\ IsSubseqWhere(response.events, events_data,
             LAMBDA e : e.user_id = request.user_id)
       /\ response.count = Len(response.events)
       /\ events_data = before

\* C6's case: the user has two events, with another user's event between
\* or around them.
C6_Witness ==
    /\ IsGetUserEvents
    /\ Len(response.events) = 2
    /\ Len(events_data) = 3

IsGetStats == request.op = "GET /stats"

CountOfUser(u) ==
    Cardinality({i \in 1..Len(events_data) : events_data[i].user_id = u})

StatsOfStore ==
    /\ response.status = 200
    /\ IF events_data = <<>>
       THEN /\ response.total_events = 0
            /\ response.unique_users = 0
            /\ response.event_types = {}
            /\ "most_active_user" \notin DOMAIN response
       ELSE /\ response.total_events = Len(events_data)
            /\ response.unique_users = Cardinality(UserIdsOf(events_data))
            /\ "most_active_user" \in DOMAIN response
            /\ LET m == response.most_active_user
               IN  /\ m.event_count = CountOfUser(m.user_id)
                   /\ m.event_count >= 1
                   /\ \A u \in UserIdsOf(events_data) : m.event_count >= CountOfUser(u)

\* C7: computeStats on an empty store returns zero totals, no event types and
\* no most-active user; on a non-empty store the total, the number of
\* distinct users, and a most-active user whose count is its number of
\* records and at least every other user's.
C7_Stats == IsGetStats => StatsOfStore

\* C7 where every stored user_id and event_type is hashable (a string).
C7_StatsOfHashableStore ==
    (IsGetStats /\ AllHashable(UserIdsOf(events_data))
                /\ AllHashable(EventTypesOf(events_data)))
    => StatsOfStore

IsGetEventTypes == request.op = "GET /event-types"

RECURSIVE SumOver(_, _)
SumOver(f, S) ==
    IF S = {} THEN 0
    ELSE LET x == CHOOSE y \in S : TRUE IN f[x] + SumOver(f, S \ {x})

EventTypesOfStore ==
    /\ response.status = 200
    /\ response.event_types = {events_data[i].event_type : i \in 1..Len(events_data)}
    /\ DOMAIN response.type_counts = response.event_types
    /\ \A t \in response.event_types :
          response.type_counts[t]
             = Cardinality({i \in 1..Len(events_data) : events_data[i].event_type = t})
    /\ SumOver(response.type_counts, response.event_types) = Len(events_data)

\* C8: in every reachable store state listEventTypes returns the distinct
\* event_type values of the store, each with the number of records of that
\* type, and the counts sum to the number of records.
C8_EventTypes == IsGetEventTypes => EventTypesOfStore

\* C8 where every stored event_type is hashable (a string).
C8_EventTypesOfHashableStore ==
    (IsGetEventTypes /\ AllHashable(EventTypesOf(events_data))) => EventTypesOfStore

\* C9: once a clear has completed and until the next ingest, the store is
\* empty, the snapshot holds the empty list, and every query answers empty:
\* no events, no users, no event types, totalEvents 0.
C9_EmptyAfterClear ==
    cleared
    => /\ events_data = <<>>
       /\ data_file = JsonFile(<<>>)
       /\ request.op = "DELETE /events"
             => response.status = 200 /\ response.total_events = 0
       /\ request.op \in {"GET /events", "GET /events/<user_id>"}
             => response.status = 200 /\ response.events = <<>> /\ response.count = 0
       /\ request.op = "GET /users"
             => response.status = 200 /\ response.users = {} /\ response.count = 0
       /\ request.op = "GET /event-types"
             => response.status = 200 /\ response.event_types = {} /\ response.count = 0
       /\ request.op = "GET /stats"
             => response.status = 200 /\ response.total_events = 0
       /\ request.op = "GET /"
             => response.status = 200 /\ response.total_events = 0

\* C9's case: a clear of a list that was not empty has completed.
C9_Witness ==
    /\ cleared
    /\ request.op = "DELETE /events"
    /\ Len(before) >= 2
    /\ response.status = 200

\* C10: when the snapshot write of an ingest fails, the caller gets an error
\* and no success response listing accepted records.
C10_SaveFailureIsReported ==
    (IsPost /\ save_calls # <<>> /\ save_calls[1] # "ok")
    => /\ response.status = 500
       /\ "error" \in DOMAIN response
       /\ "events_added" \notin DOMAIN response

\* C10's case: the save fails after two records were appended.
C10_Witness ==
    /\ IsPost
    /\ save_calls = <<"write_failed">>
    /\ Len(events_data) = Len(before) + 2

IsStartup == request.op = "load_data"

\* The file is no snapshot: it is absent, or no text, or no JSON text.
NoSnapshot(f) == f.kind # "text" \/ ~json_load(f.content).ok

\* C12: a save followed by a load yields the sequence of records that was
\* saved, extra fields included; a load of an absent or corrupt snapshot
\* yields the empty sequence and does not fail.
C12_RoundTrip ==
    /\ save_calls = <<"ok">>
          => ~LoadRaises(data_file) /\ load_data(data_file) = events_data
    /\ (IsStartup /\ NoSnapshot(data_file)) => (serving /\ events_data = <<>>)

\* C12 where the file, when present, is text in the encoding it is read in.
C12_RoundTripOfText ==
    /\ save_calls = <<"ok">>
          => ~LoadRaises(data_file) /\ load_data(data_file) = events_data
    /\ (IsStartup /\ NoSnapshot(data_file) /\ data_file.kind # "undecodable")
          => (serving /\ events_data = <<>>)
    /\ (IsStartup /\ ~NoSnapshot(data_file))
          => (serving /\ data_file = JsonFile(events_data))

\* ------------------------------------------------- properties of threads
IsIngest(t) == threads[t].req.op = "POST /events"
IsRead(t) == threads[t].req.op = "GET /events"
IsClear(t) == threads[t].req.op = "DELETE /events"

\* The records a submission accepts: those appended and those yet to be.
AcceptedBy(w) == threads[w].new_events \o threads[w].pending

\* Of a sequence of records, those of the submission of thread w.
FromSubmission(events, w) ==
    SelectSeq(events, LAMBDA e : e.added_at = Now(w))

\* C11: a read that runs while an ingestion is in flight sees none of the
\* records the submission accepts or all of them (of those its filter lets
\* through), never a part.
C11_NoHalfBatch ==
    \A r, w \in Threads :
        (IsRead(r) /\ IsIngest(w))
        => LET seen == FromSubmission(threads[r].filtered_events, w)
           IN  \/ seen = <<>>
               \/ seen = Filtered(AcceptedBy(w), threads[r].req.user_id, NoArg)

\* ---------------------------------------------- properties of the store
\* The properties below speak of the handlers run one at a time again.

IsClearRequest == request.op = "DELETE /events"

NonEmpty(o) == o.user_id # "" /\ o.event_type # "" /\ o.event_timestamp # ""

\* The submitted entry o is among the records appended by the request.
InAppended(o) == \E i \in 1..Len(Appended) : StoredFrom(Appended[i], o)

\* Line k of a text is among the records appended by the request.
LineInAppended(t, k) ==
    \E i \in 1..Len(Appended) :
        /\ Appended[i].user_id = Token(t, k, 1)
        /\ Appended[i].event_type = Token(t, k, 2)
        /\ Appended[i].event_timestamp = Token(t, k, 3)

\* Every submitted record that Valid holds of is in the store once the
\* ingest is answered, and what was in the store stays until a clear.
ValidatedAreStored(Valid(_)) ==
    /\ (IsJsonPost /\ request.data.kind = "object" /\ Valid(request.data.obj))
          => InAppended(request.data.obj)
    /\ (IsJsonPost /\ request.data.kind = "array")
          => \A k \in 1..Len(request.data.items) :
                Valid(request.data.items[k]) => InAppended(request.data.items[k])
    /\ IsTextPost
          => \A k \in ParsingLines(request.text) : LineInAppended(request.text, k)
    /\ (~IsClearRequest /\ ~IsStartup) => KeepsBefore

\* C13: in every reachable state every record of the store has user_id,
\* event_type and event_timestamp present and non-empty, and every submitted
\* record that passed that validation and was not cleared is in the store.
C13_PresentAndNonEmpty ==
    /\ \A i \in 1..Len(events_data) :
          HoldsAllThree(events_data[i]) /\ NonEmpty(events_data[i])
    /\ ValidatedAreStored(LAMBDA o : HoldsAllThree(o) /\ NonEmpty(o))

\* C13 with the validation the code makes: the three keys are present.
C13_RequiredKeysPresent ==
    /\ \A i \in 1..Len(events_data) : HoldsAllThree(events_data[i])
    /\ ValidatedAreStored(HoldsAllThree)

\* C14: every record of the store has an added_at, and no step changes the
\* added_at of a record that stays in the store: ingests, queries and saves
\* leave the records the store held in place with their added_at; only a
\* clear removes them.
C14_AddedAtKept ==
    /\ \A i \in 1..Len(events_data) : "added_at" \in DOMAIN events_data[i]
    /\ [][/\ \A i \in 1..Len(events_data') : "added_at" \in DOMAIN events_data'[i]
          /\ request'.op # "DELETE /events"
                => /\ Len(events_data') >= Len(events_data)
                   /\ \A i \in 1..Len(events_data) :
                         events_data'[i].added_at = events_data[i].added_at]_vars

\* C14's case: an ingest has added a record, stamped now, after a record an
\* earlier run stamped.
C14_Witness ==
    /\ IsPost
    /\ before # <<>>
    /\ Len(events_data) > Len(before)
    /\ events_data[1].added_at = 0
    /\ events_data[Len(events_data)].added_at \in Times

\* The number of records a submission is to add: its entries holding the
\* three keys, its lines of three tokens or more.
SubmittedValid ==
    IF IsTextPost THEN Cardinality(ParsingLines(request.text))
    ELSE IF IsJsonPost /\ request.data.kind = "array"
    THEN Cardinality({k \in 1..Len(request.data.items) :
                         HoldsAllThree(request.data.items[k])})
    ELSE IF IsJsonPost /\ request.data.kind = "object" /\ HoldsAllThree(request.data.obj)
    THEN 1
    ELSE 0

\* C15: the store is append-only between clears.  An ingest leaves the store
\* it found as a prefix of the store it leaves and adds one record for each
\* valid entry, whether or not the store holds the same user_id, event_type
\* and event_timestamp already; a query leaves the store as it is; a clear
\* leaves it empty, and no other step removes a record.
C15_AppendOnly ==
    /\ [](IsPost => KeepsBefore /\ Len(Appended) = SubmittedValid)
    /\ [][IF request'.op = "DELETE /events" THEN events_data' = <<>>
          ELSE IF request'.op = "POST /events"
          THEN /\ Len(events_data') >= Len(events_data)
               /\ SubSeq(events_data', 1, Len(events_data)) = events_data
          ELSE events_data' = events_data]_vars

\* C15's case: an ingest has added a record whose user_id, event_type and
\* event_timestamp are those of a record the store held.
C15_Witness ==
    /\ IsPost
    /\ \E i \in 1..Len(before), j \in Len(before) + 1..Len(events_data) :
          SameTriple(events_data[i], events_data[j])

\* C16 as stated: every ingest submission makes exactly one snapshot write.
C16_OneSavePerSubmission == IsPost => Len(save_calls) = 1

\* The submission reaches the save: a text body, a list of objects, or an
\* object holding the three keys.
ReachesSave ==
    \/ IsTextPost
    \/ IsJsonPost /\ request.data.kind = "array"
    \/ IsJsonPost /\ request.data.kind = "object" /\ HoldsAllThree(request.data.obj)

\* C16, amended: a submission that is not answered with an error before the
\* save makes exactly one snapshot write, however many records it adds, none
\* included; a submission rejected before the save makes none.
C16_OneSaveUnlessRejected ==
    IsPost => Len(save_calls) = (IF ReachesSave THEN 1 ELSE 0)

\* C16's case: a submission has added two records or more with one write.
C16_Witness ==
    /\ IsPost
    /\ Len(Appended) >= 2
    /\ Len(save_calls) = 1

IsQueryOp(op) ==
    op \in {"GET /", "GET /events", "GET /events/<user_id>", "GET /users",
            "GET /event-types", "GET /stats"}

\* C17: with the handlers run one at a time, once an ingest or a clear whose
\* snapshot write succeeded is answered, the snapshot read back is the
\* in-memory sequence; a query leaves the snapshot as it is.
C17_WriteThrough ==
    /\ []((request.op \in {"POST /events", "DELETE /events"} /\ save_calls = <<"ok">>)
            => /\ data_file.kind = "text"
               /\ json_load(data_file.content).ok
               /\ load_data(data_file) = events_data)
    /\ [][IsQueryOp(request'.op) => data_file' = data_file]_vars

\* C17's case: an ingest has saved a store of two records or more, one of
\* them with an extra field.
C17_Witness ==
    /\ IsPost
    /\ save_calls = <<"ok">>
    /\ Len(events_data) >= 2
    /\ \E i \in 1..Len(events_data) : "note" \in DOMAIN events_data[i]

\* ------------------------------------- properties of threads, continued
AllDone == \A t \in Threads : At(t, "done")

\* The places of the store that hold records of the submission of thread w.
PlacesOf(w) == {i \in 1..Len(events_data) : events_data[i].added_at = Now(w)}

\* C18: when concurrent submissions have all completed, the records each
\* ingest accepted are in the store in submission order with no other record
\* between them, all of them or, when a clear ran as well, all or none.
C18_NoInterleaving ==
    AllDone
    => \A w \in Threads :
          IsIngest(w)
          => /\ \/ FromSubmission(events_data, w) = threads[w].new_events
                \/ /\ FromSubmission(events_data, w) = <<>>
                   /\ \E c \in Threads : IsClear(c)
             /\ \A i, j \in PlacesOf(w) :
                   \A m \in i..j : m \in PlacesOf(w)

\* The request of thread t called save_data().
Saved(t) == IsClear(t) \/ (IsIngest(t) /\ threads[t].resp.status = 201)

\* C19: when concurrent ingests and clears, whose snapshot writes all
\* succeed, have all completed, the snapshot read back is the in-memory
\* sequence.
C19_NoLostWrite ==
    (AllDone /\ \E t \in Threads : Saved(t))
    => /\ data_file.kind = "text"
       /\ json_load(data_file.content).ok
       /\ load_data(data_file) = events_data

\* ------------------------------------ properties of the store, continued
\* C20: whenever an ingest is answered with an error (missing required
\* fields, unsupported content type, or a failure inside the handler such
\* as a failed snapshot write), the store is what it was before the call.
C20_ErrorLeavesStore ==
    (IsPost /\ response.status >= 400) => events_data = before

\* C20 for the errors returned before the save.
C20_ErrorBeforeSaveLeavesStore ==
    (IsPost /\ response.status >= 400 /\ save_calls = <<>>) => events_data = before
====
